---- MODULE Spec2Model ----
(***************************************************************************)
(* Model of the value-object layer and error taxonomy of the v1 crate:     *)
(*   error.rs               AppError, status_code, into_response, From     *)
(*   normalized_string.rs   NormalizedString::new                          *)
(*   birth_date.rs          BirthDate::new, from_naive_date, age           *)
(* Rust Strings of the error layer are TLA+ strings; the text handled by   *)
(* NormalizedString is a sequence of Unicode code points.                  *)
(***************************************************************************)
EXTENDS Integers, Sequences, FiniteSets, TLC

VARIABLES call, log, today, bd

vars == <<call, log, today, bd>>

\* Option::None
None == [none |-> TRUE]

\* Result::Ok, Result::Err
Ok(v) == [ok |-> v]
Err(e) == [err |-> e]

\* matches!(r, Ok(Some(_))) and Result::is_err
IsSome(r) == "ok" \in DOMAIN r /\ r.ok # None
IsErr(r) == "err" \in DOMAIN r

\* ------------------------------------------------------------------------
\* Bounds of the model
\* ------------------------------------------------------------------------

\* timestamps Utc::now().timestamp() ranges over 0..MaxNow
MaxNow == 2

\* the user ids drawn run over -MaxId..MaxId, next to the ends of i64
MaxId == 10

\* ------------------------------------------------------------------------
\* error.rs : AppError
\* ------------------------------------------------------------------------

Kinds ==
  { "BadRequest", "Unauthorized", "Forbidden", "NotFound", "RequestTimeout",
    "Conflict", "ImATeapot", "UnprocessableContent", "InternalServerError" }

AppError(kind, detail) == [kind |-> kind, detail |-> detail]

\* Option<String>::Some
Some(v) == [some |-> v]

\* mutant of status_code: NotFound and Conflict swapped
status_code_swapped(self) ==
  CASE self.kind = "BadRequest" -> 400
    [] self.kind = "Unauthorized" -> 401
    [] self.kind = "Forbidden" -> 403
    [] self.kind = "NotFound" -> 409
    [] self.kind = "RequestTimeout" -> 408
    [] self.kind = "Conflict" -> 404
    [] self.kind = "ImATeapot" -> 418
    [] self.kind = "UnprocessableContent" -> 422
    [] self.kind = "InternalServerError" -> 500

status_code(self) ==
  CASE self.kind = "BadRequest" -> 400
    [] self.kind = "Unauthorized" -> 401
    [] self.kind = "Forbidden" -> 403
    [] self.kind = "NotFound" -> 404
    [] self.kind = "RequestTimeout" -> 408
    [] self.kind = "Conflict" -> 409
    [] self.kind = "ImATeapot" -> 418
    [] self.kind = "UnprocessableContent" -> 422
    [] self.kind = "InternalServerError" -> 500

\* AppError::detail : the Option<String> every variant carries
detail(self) == self.detail

\* StatusCode::is_server_error
is_server_error(status) == status >= 500 /\ status <= 599

\* StatusCode::is_client_error
is_client_error(status) == status >= 400 /\ status <= 499

\* StatusCode::canonical_reason
canonical_reason(status) ==
  CASE status = 400 -> Some("Bad Request")
    [] status = 401 -> Some("Unauthorized")
    [] status = 403 -> Some("Forbidden")
    [] status = 404 -> Some("Not Found")
    [] status = 408 -> Some("Request Timeout")
    [] status = 409 -> Some("Conflict")
    [] status = 418 -> Some("I'm a teapot")
    [] status = 422 -> Some("Unprocessable Entity")
    [] status = 500 -> Some("Internal Server Error")
    [] OTHER -> None

\* Option::unwrap_or
unwrap_or(opt, default) == IF opt = None THEN default ELSE opt.some

\* common_dto.rs : struct ApiError
ApiError(status, message, det, instance, timestamp) ==
  [status |-> status, message |-> message, detail |-> det,
   instance |-> instance, timestamp |-> timestamp]

\* serde serialization of ApiError: detail and instance are skipped when None
\* (skip_serializing_if = "Option::is_none"); the result maps the names of
\* the fields present in the JSON object to their values.
Json(body) ==
  LET present == {"status", "message", "timestamp"}
                   \cup (IF body.detail = None THEN {} ELSE {"detail"})
                   \cup (IF body.instance = None THEN {} ELSE {"instance"})
  IN [f \in present |->
        CASE f = "status" -> body.status
          [] f = "message" -> body.message
          [] f = "timestamp" -> body.timestamp
          [] f = "detail" -> body.detail.some
          [] f = "instance" -> body.instance.some]

\* mutant of log_record: the record of a server error is written without
\* the detail, like the body
log_record_redacted(self) ==
  IF is_server_error(status_code(self))
    THEN [level |-> "ERROR", self |-> AppError(self.kind, None),
          message |-> "internal server error"]
    ELSE [level |-> "WARN", self |-> self, message |-> "client error"]

\* the tracing record emitted by into_response: error! or warn! with ?self
log_record(self) ==
  IF is_server_error(status_code(self))
    THEN [level |-> "ERROR", self |-> self, message |-> "internal server error"]
    ELSE [level |-> "WARN", self |-> self, message |-> "client error"]

\* mutant of into_response: the detail is copied into the body on both branches
into_response_leaky(self, now) ==
  LET status == status_code(self)
      body == ApiError(status, unwrap_or(canonical_reason(status), "Error"),
                       detail(self), None, now)
  IN [status |-> status, body |-> body, json |-> Json(body)]

\* impl IntoResponse for AppError (the response part; now is Utc::now().timestamp())
into_response(self, now) ==
  LET status == status_code(self)
      body == IF is_server_error(status)
                THEN ApiError(status,
                              unwrap_or(canonical_reason(status), "Internal Server Error"),
                              None, None, now)
                ELSE ApiError(status,
                              unwrap_or(canonical_reason(status), "Error"),
                              detail(self), None, now)
  IN [status |-> status, body |-> body, json |-> Json(body)]

\* ------------------------------------------------------------------------
\* error.rs : impl From<SqlxError> for AppError
\* ------------------------------------------------------------------------

UNIQUE_VIOLATION == "23505"
FK_VIOLATION == "23503"
NOT_NULL_VIOLATION == "23502"
CHECK_VIOLATION == "23514"

\* str::contains
Contains(s, sub) ==
  \E i \in 1..(Len(s) - Len(sub) + 1) : SubSeq(s, i, i + Len(sub) - 1) = sub

\* sqlx::Error values: RowNotFound, PoolTimedOut, Database(code, message) and
\* the remaining variants, which carry (or are) a message
SqlxDatabase(code, message) == [variant |-> "Database", code |-> code, message |-> message]
SqlxOther(variant, message) == [variant |-> variant, message |-> message]

\* e.to_string() : Display of sqlx::Error
to_string(e) ==
  CASE e.variant = "RowNotFound" ->
         "no rows returned by a query that expected to return at least one row"
    [] e.variant = "PoolTimedOut" ->
         "pool timed out while waiting for an open connection"
    [] e.variant = "PoolClosed" ->
         "attempted to acquire a connection on a closed pool"
    [] e.variant = "WorkerCrashed" ->
         "attempted to communicate with a crashed background worker"
    [] e.variant = "Database" -> "error returned from database: " \o e.message
    [] e.variant = "Io" -> "error communicating with database: " \o e.message
    [] e.variant = "Protocol" -> "encountered unexpected or invalid data: " \o e.message
    [] e.variant = "Tls" -> "error occurred while attempting to establish a TLS connection: "
                              \o e.message

\* mutant of from: the "timeout" substring rule is applied to database errors
\* with an unrecognized code as well
from_timeout_first(e) ==
  LET e_str == to_string(e) IN
  CASE e.variant = "RowNotFound" -> AppError("NotFound", Some("Resource not found"))
    [] e.variant = "PoolTimedOut" -> AppError("RequestTimeout", Some("Database timeout"))
    [] e.variant = "Database" ->
         LET code == unwrap_or(e.code, "") IN
         CASE code = UNIQUE_VIOLATION -> AppError("Conflict", Some("Duplicate key"))
           [] code = FK_VIOLATION -> AppError("Conflict", Some("Foreign-key violation"))
           [] code = NOT_NULL_VIOLATION -> AppError("BadRequest", Some("Null value in column"))
           [] code = CHECK_VIOLATION -> AppError("UnprocessableContent", Some("Check violation"))
           [] OTHER ->
                IF Contains(e_str, "timeout")
                  THEN AppError("RequestTimeout", Some("Database timeout"))
                  ELSE AppError("InternalServerError",
                                Some("Database error (" \o code \o "): " \o e.message))
    [] OTHER ->
         IF Contains(e_str, "timeout")
           THEN AppError("RequestTimeout", Some("Database timeout"))
           ELSE AppError("InternalServerError", Some("DB error: " \o e_str))

\* mutant of from: the not-null arm answers Conflict like its two neighbours
from_not_null_conflict(e) ==
  LET e_str == to_string(e) IN
  CASE e.variant = "RowNotFound" -> AppError("NotFound", Some("Resource not found"))
    [] e.variant = "PoolTimedOut" -> AppError("RequestTimeout", Some("Database timeout"))
    [] e.variant = "Database" ->
         LET code == unwrap_or(e.code, "") IN
         CASE code = UNIQUE_VIOLATION -> AppError("Conflict", Some("Duplicate key"))
           [] code = FK_VIOLATION -> AppError("Conflict", Some("Foreign-key violation"))
           [] code = NOT_NULL_VIOLATION -> AppError("Conflict", Some("Null value in column"))
           [] code = CHECK_VIOLATION -> AppError("UnprocessableContent", Some("Check violation"))
           [] OTHER -> AppError("InternalServerError",
                                Some("Database error (" \o code \o "): " \o e.message))
    [] OTHER ->
         IF Contains(e_str, "timeout")
           THEN AppError("RequestTimeout", Some("Database timeout"))
           ELSE AppError("InternalServerError", Some("DB error: " \o e_str))

\* impl From<SqlxError> for AppError :: from
from(e) ==
  LET e_str == to_string(e) IN
  CASE e.variant = "RowNotFound" -> AppError("NotFound", Some("Resource not found"))
    [] e.variant = "PoolTimedOut" -> AppError("RequestTimeout", Some("Database timeout"))
    [] e.variant = "Database" ->
         LET code == unwrap_or(e.code, "") IN
         CASE code = UNIQUE_VIOLATION -> AppError("Conflict", Some("Duplicate key"))
           [] code = FK_VIOLATION -> AppError("Conflict", Some("Foreign-key violation"))
           [] code = NOT_NULL_VIOLATION -> AppError("BadRequest", Some("Null value in column"))
           [] code = CHECK_VIOLATION -> AppError("UnprocessableContent", Some("Check violation"))
           [] OTHER -> AppError("InternalServerError",
                                Some("Database error (" \o code \o "): " \o e.message))
    [] OTHER ->
         IF Contains(e_str, "timeout")
           THEN AppError("RequestTimeout", Some("Database timeout"))
           ELSE AppError("InternalServerError", Some("DB error: " \o e_str))

\* ------------------------------------------------------------------------
\* domain/value_obj/user_id.rs : UserId
\* ------------------------------------------------------------------------

\* The type i64. Its values are written as three limbs <<hi, mid, lo>>,
\* v = hi * 2^48 + mid * 2^24 + lo, with hi in -2^15..2^15 - 1 carrying the
\* sign and mid, lo in 0..2^24 - 1, so that i64::MIN and i64::MAX are values
\* of the model.
LIMB == 16777216

I64_MAX == <<32767, LIMB - 1, LIMB - 1>>

I64_MIN == <<-32768, 0, 0>>

\* the i64 of an integer literal n, -2^24 < n < 2^24
i64(n) == IF n >= 0 THEN <<0, 0, n>> ELSE <<-1, LIMB - 1, LIMB + n>>

\* v <= 0 on i64
le_zero(v) == v[1] < 0 \/ v = i64(0)

\* UserId::TARGET
USER_ID_TARGET == "user ID(user_id)"

\* struct UserId(i64)
UserId(user_id) == <<user_id>>

msg_positive == USER_ID_TARGET \o " wa sei no seisuu de nakereba narimasen."

\* mutant of new_user_id: zero is accepted
new_user_id_zero_accepted(user_id) ==
  IF user_id[1] < 0
    THEN Err(AppError("InternalServerError", Some(msg_positive)))
    ELSE Ok(UserId(user_id))

\* UserId::new
new_user_id(user_id) ==
  IF le_zero(user_id)
    THEN Err(AppError("InternalServerError", Some(msg_positive)))
    ELSE Ok(UserId(user_id))

\* UserId::as_i64
as_i64(self) == self[1]

\* ------------------------------------------------------------------------
\* Inputs of the error layer
\* ------------------------------------------------------------------------

\* engine codes a database error may carry: the four of the table, two that
\* are not in it, and none
SqlCodes ==
  { Some(UNIQUE_VIOLATION), Some(FK_VIOLATION), Some(NOT_NULL_VIOLATION),
    Some(CHECK_VIOLATION), Some("23P01"), Some("57014"), None }

SqlMessages ==
  { "duplicate key value violates unique constraint",
    "canceling statement due to statement timeout",
    "Timeout expired" }

SqlxErrors ==
  { [variant |-> "RowNotFound"], [variant |-> "PoolTimedOut"],
    [variant |-> "PoolClosed"], [variant |-> "WorkerCrashed"] }
    \cup { SqlxDatabase(c, m) : c \in SqlCodes, m \in SqlMessages }
    \cup { SqlxOther(v, m) : v \in {"Io", "Protocol", "Tls"}, m \in SqlMessages }

\* details attached to directly constructed errors
Details ==
  { None, Some(""), Some("name is required"), Some("stack: db.rs:42 password=hunter2") }

AppErrors ==
  { AppError(k, d) : k \in Kinds, d \in Details } \cup { from(e) : e \in SqlxErrors }

Nows == 0..MaxNow

\* the user ids UserId::new is called with: the integers around zero, the
\* values of the tests among them, and the two ends of i64 with their
\* neighbours
UserIds ==
  { i64(n) : n \in (-MaxId)..MaxId }
    \cup { I64_MIN, <<-32768, 0, 1>>, <<-1, 0, 0>>, <<0, 0, LIMB - 1>>, <<0, 1, 0>>,
           <<1, 0, 0>>, <<32767, LIMB - 1, LIMB - 2>>, I64_MAX }

\* ------------------------------------------------------------------------
\* Error layer: state machine
\* ------------------------------------------------------------------------

\* a fixed calendar date for the specifications that never read the clock
Epoch == <<1970, 1, 1>>

Init ==
  /\ call = [op |-> "idle"]
  /\ log = <<>>
  /\ today = Epoch
  /\ bd = None

\* a persistence error surfaces and is converted with From
FromSqlx ==
  /\ call.op = "idle"
  /\ \E e \in SqlxErrors :
       call' = [op |-> "from", e |-> e, ret |-> from(e)]
  /\ log' = <<>>
  /\ UNCHANGED <<today, bd>>

\* an AppError reaches the transport boundary: into_response takes the
\* status of self and emits the tracing record (error.rs lines 87-94)
IntoResponseLog ==
  /\ call.op = "idle"
  /\ \E self \in AppErrors :
       /\ log' = <<log_record(self)>>
       /\ call' = [op |-> "into_response: logged", self |-> self]
  /\ UNCHANGED <<today, bd>>

\* into_response goes on: it reads the clock, builds the body and returns
\* the response (error.rs lines 96-118)
IntoResponse ==
  /\ call.op = "into_response: logged"
  /\ \E now \in Nows :
       call' = [op |-> "into_response", self |-> call.self, now |-> now,
                ret |-> into_response(call.self, now)]
  /\ UNCHANGED <<log, today, bd>>

\* UserId::new is called with an i64
UserIdNew ==
  /\ call.op = "idle"
  /\ \E user_id \in UserIds :
       call' = [op |-> "UserId::new", user_id |-> user_id, ret |-> new_user_id(user_id)]
  /\ log' = <<>>
  /\ UNCHANGED <<today, bd>>

\* the handler that made the call returns; nothing of the call is kept
Return ==
  /\ call.op \notin {"idle", "into_response: logged"}
  /\ call' = [op |-> "idle"]
  /\ log' = <<>>
  /\ UNCHANGED <<today, bd>>

Next == FromSqlx \/ IntoResponseLog \/ IntoResponse \/ UserIdNew \/ Return

Spec == Init /\ [][Next]_vars

\* ------------------------------------------------------------------------
\* Properties of the error layer (specification Spec)
\* ------------------------------------------------------------------------

\* the status table of the design, kind by kind
StatusTable ==
  [k \in Kinds |->
     CASE k = "BadRequest" -> 400
       [] k = "Unauthorized" -> 401
       [] k = "Forbidden" -> 403
       [] k = "NotFound" -> 404
       [] k = "RequestTimeout" -> 408
       [] k = "Conflict" -> 409
       [] k = "ImATeapot" -> 418
       [] k = "UnprocessableContent" -> 422
       [] k = "InternalServerError" -> 500]

\* C1: the body of a converted error carries the attached detail verbatim when
\* the status is a client error (absent when none was attached), carries no
\* detail when the status is a server error whatever was attached, never
\* carries an instance, and two InternalServerErrors that differ only in
\* their detail give the same status and the same serialized body.
C1_DetailOnlyForClientErrors ==
  call.op = "into_response" =>
    LET self == call.self
        r == call.ret
        code == StatusTable[self.kind]
        fields == DOMAIN r.json
    IN /\ "instance" \notin fields
       /\ r.body.instance = None
       /\ (code >= 400 /\ code <= 499) =>
            /\ r.body.detail = self.detail
            /\ IF self.detail = None
                 THEN "detail" \notin fields
                 ELSE "detail" \in fields /\ r.json["detail"] = self.detail.some
       /\ (code >= 500 /\ code <= 599) =>
            /\ r.body.detail = None
            /\ "detail" \notin fields
       /\ self.kind = "InternalServerError" =>
            \A d \in Details :
              LET o == into_response(AppError("InternalServerError", d), call.now)
              IN o.status = r.status /\ o.json = r.json

\* C1 witness: an InternalServerError with a populated detail was converted and
\* the serialized body has no detail
C1_Witness ==
  /\ call.op = "into_response"
  /\ call.self.kind = "InternalServerError"
  /\ call.self.detail # None
  /\ call.self.detail.some # ""
  /\ "detail" \notin DOMAIN call.ret.json

\* C2: status_code depends on the kind alone and follows the fixed table; the
\* HTTP status of the response and the status field of its body both equal it.
C2_StatusCodeTable ==
  /\ \A e \in AppErrors : status_code(e) = StatusTable[e.kind]
  /\ call.op = "into_response" =>
       /\ call.ret.status = StatusTable[call.self.kind]
       /\ call.ret.body.status = StatusTable[call.self.kind]
       /\ call.ret.json["status"] = StatusTable[call.self.kind]

\* C2 witness: a detailed Conflict was converted to a 409 response
C2_Witness ==
  /\ call.op = "into_response"
  /\ call.self.kind = "Conflict"
  /\ call.self.detail # None
  /\ call.ret.status = 409
  /\ call.ret.json["status"] = 409

\* C3: the conversion of a persistence error follows the explicit table:
\* row-not-found NotFound, pool timed out RequestTimeout, database error
\* 23505 and 23503 Conflict, 23502 BadRequest, 23514 UnprocessableContent,
\* any other code or no code InternalServerError carrying code and message.
C3_PersistenceErrorTable ==
  call.op = "from" =>
    LET e == call.e
        r == call.ret
    IN /\ e.variant = "RowNotFound" => r.kind = "NotFound"
       /\ e.variant = "PoolTimedOut" => r.kind = "RequestTimeout"
       /\ e.variant = "Database" =>
            CASE e.code = Some("23505") -> r.kind = "Conflict"
              [] e.code = Some("23503") -> r.kind = "Conflict"
              [] e.code = Some("23502") -> r.kind = "BadRequest"
              [] e.code = Some("23514") -> r.kind = "UnprocessableContent"
              [] OTHER ->
                   /\ r.kind = "InternalServerError"
                   /\ r.detail # None
                   /\ Contains(r.detail.some, e.message)
                   /\ e.code # None => Contains(r.detail.some, "(" \o e.code.some \o ")")

\* C3 witness: a database error without a code was converted to an
\* InternalServerError whose detail carries the message
C3_Witness ==
  /\ call.op = "from"
  /\ call.e.variant = "Database"
  /\ call.e.code = None
  /\ call.ret.kind = "InternalServerError"
  /\ Contains(call.ret.detail.some, call.e.message)

\* C13: UserId::new(v) succeeds exactly when v > 0: 1 and i64::MAX succeed,
\* 0 and every negative value fail. A failure is InternalServerError with a
\* detail attached; on success as_i64() gives v back unchanged.
C13_PositiveUserId ==
  call.op = "UserId::new" =>
    LET v == call.user_id
        positive == v[1] > 0 \/ (v[1] = 0 /\ (v[2] > 0 \/ v[3] > 0))
    IN /\ IsErr(call.ret) <=> ~positive
       /\ v \in {i64(1), I64_MAX} => ~IsErr(call.ret)
       /\ v \in {i64(0), I64_MIN} \cup {i64(-n) : n \in 1..MaxId} => IsErr(call.ret)
       /\ IsErr(call.ret) =>
            /\ call.ret.err.kind = "InternalServerError"
            /\ call.ret.err.detail # None
            /\ call.ret.err.detail = Some(msg_positive)
       /\ ~IsErr(call.ret) => as_i64(call.ret.ok) = v

\* C13 witness: UserId::new(0) failed with InternalServerError and a detail
C13_Witness ==
  /\ call.op = "UserId::new"
  /\ call.user_id = i64(0)
  /\ IsErr(call.ret)
  /\ call.ret.err.kind = "InternalServerError"
  /\ call.ret.err.detail # None

\* UserId::new(i64::MAX) succeeded and as_i64 gives i64::MAX back
C13_WitnessMax ==
  /\ call.op = "UserId::new"
  /\ call.user_id = I64_MAX
  /\ ~IsErr(call.ret)
  /\ as_i64(call.ret.ok) = I64_MAX

\* C14: every conversion of an AppError to a response emits exactly one log
\* record, and emits it before the body is built: error severity when the
\* status is a server error, warning otherwise. The record holds the full
\* error value, its detail included, also for a server error, where the body
\* carries no detail. Nothing else writes a record.
C14_OneLogRecordBeforeBody ==
  LET level(self) == IF StatusTable[self.kind] >= 500 THEN "ERROR" ELSE "WARN"
      logged(self) ==
        /\ Len(log) = 1
        /\ log[1].level = level(self)
        /\ log[1].self = self
        /\ log[1].self.detail = self.detail
  IN /\ call.op = "into_response: logged" =>
          (logged(call.self) /\ "ret" \notin DOMAIN call)
     /\ call.op = "into_response" =>
          /\ logged(call.self)
          /\ call.ret.status >= 500 => call.ret.body.detail = None
     /\ call.op \notin {"into_response: logged", "into_response"} => log = <<>>

\* C14 witness: a server error with a detail was converted: the one record
\* has error severity and holds the detail, the body has none
C14_Witness ==
  /\ call.op = "into_response"
  /\ call.self.kind = "InternalServerError"
  /\ call.self.detail # None
  /\ Len(log) = 1
  /\ log[1].level = "ERROR"
  /\ log[1].self.detail = call.self.detail
  /\ call.ret.body.detail = None

\* the record of a conversion is there while the body is not yet built
C14_WitnessLogged ==
  /\ call.op = "into_response: logged"
  /\ call.self.kind = "NotFound"
  /\ Len(log) = 1
  /\ log[1].level = "WARN"

\* C15: the "timeout" substring rule applies only to errors not already
\* classified. An error that is neither row-not-found, nor pool-timed-out,
\* nor a database error maps to RequestTimeout if its textual message
\* contains "timeout" in this very case of letters, and to
\* InternalServerError carrying the stringified cause otherwise; a database
\* error with an unrecognized code maps to InternalServerError even when its
\* message contains "timeout".
C15_TimeoutRuleOnlyForUnclassified ==
  call.op = "from" =>
    LET e == call.e
        unclassified == e.variant \notin {"RowNotFound", "PoolTimedOut", "Database"}
        recognized == {Some(UNIQUE_VIOLATION), Some(FK_VIOLATION),
                       Some(NOT_NULL_VIOLATION), Some(CHECK_VIOLATION)}
    IN /\ unclassified =>
            IF Contains(to_string(e), "timeout")
              THEN call.ret.kind = "RequestTimeout"
              ELSE call.ret = AppError("InternalServerError",
                                       Some("DB error: " \o to_string(e)))
       /\ (unclassified /\ "message" \in DOMAIN e) =>
            /\ e.message = "canceling statement due to statement timeout" =>
                 call.ret.kind = "RequestTimeout"
            /\ e.message = "Timeout expired" =>
                 call.ret.kind = "InternalServerError"
       /\ (e.variant = "Database" /\ e.code \notin recognized) =>
            call.ret.kind = "InternalServerError"

\* C15 witness: a database error with a code outside the table and the
\* message of a statement timeout became InternalServerError
C15_Witness ==
  /\ call.op = "from"
  /\ call.e.variant = "Database"
  /\ call.e.code = Some("57014")
  /\ Contains(call.e.message, "timeout")
  /\ call.ret.kind = "InternalServerError"

\* an unclassified error whose message contains "timeout" became
\* RequestTimeout
C15_WitnessUnclassified ==
  /\ call.op = "from"
  /\ call.e.variant = "Io"
  /\ Contains(call.e.message, "timeout")
  /\ call.ret.kind = "RequestTimeout"

\* ------------------------------------------------------------------------
\* normalized_string.rs : text as sequences of Unicode code points
\* ------------------------------------------------------------------------

\* Bounds: inputs are all texts of at most MaxLen code points over Alphabet,
\* length limits range over None and 0..MaxBound
MaxLen == 3
MaxBound == 2

\* code points that occur in the literals of the source
SPACE == 32
IDEOGRAPHIC_SPACE == 12288
FULLWIDTH_A == 65313
KATAKANA_TE == 12486
KATAKANA_DE == 12487
COMBINING_VOICED == 12441
MAN == 128104
ZWJ == 8205

\* full compatibility decomposition of one code point: the full-width forms
\* U+FF01..U+FF5E map to ASCII, U+3000 to U+0020, U+309B (voiced sound mark)
\* to <U+0020, U+3099>, U+30C7 canonically to <U+30C6, U+3099>
decomposition(c) ==
  CASE c >= 65281 /\ c <= 65374 -> <<c - 65248>>
    [] c = IDEOGRAPHIC_SPACE -> <<SPACE>>
    [] c = 12443 -> <<SPACE, COMBINING_VOICED>>
    [] c = KATAKANA_DE -> <<KATAKANA_TE, COMBINING_VOICED>>
    [] OTHER -> <<c>>

\* Canonical_Combining_Class
combining_class(c) == IF c = COMBINING_VOICED THEN 8 ELSE 0

\* primary composite of a starter and a following mark (0: none)
composite(a, b) == IF a = KATAKANA_TE /\ b = COMBINING_VOICED THEN KATAKANA_DE ELSE 0

RECURSIVE decompose(_)
decompose(s) == IF s = <<>> THEN <<>> ELSE decomposition(Head(s)) \o decompose(Tail(s))

\* one step of canonical composition: c joins the last starter of out when the
\* pair has a primary composite and nothing between them blocks it
compose_step(out, c) ==
  LET starters == {i \in 1..Len(out) : combining_class(out[i]) = 0}
      i == IF starters = {} THEN 0
           ELSE CHOOSE k \in starters : \A j \in starters : j <= k
      blocked == /\ i < Len(out)
                 /\ \/ combining_class(c) = 0
                    \/ \E k \in (i + 1)..Len(out) : combining_class(out[k]) >= combining_class(c)
  IN IF i > 0 /\ composite(out[i], c) # 0 /\ ~blocked
       THEN [out EXCEPT ![i] = composite(out[i], c)]
       ELSE Append(out, c)

RECURSIVE compose(_, _)
compose(out, s) == IF s = <<>> THEN out ELSE compose(compose_step(out, Head(s)), Tail(s))

\* mutant of nfkc: the text is left as it is
nfkc_identity(s) == s

\* str::nfkc().collect::<String>() : compatibility decomposition, canonical
\* ordering (a no-op with a single non-zero combining class), composition
nfkc(s) == compose(<<>>, decompose(s))

\* char::is_whitespace : the White_Space property
is_whitespace(c) ==
  \/ c >= 9 /\ c <= 13
  \/ c \in {32, 133, 160, 5760, 8232, 8233, 8239, 8287, 12288}
  \/ c >= 8192 /\ c <= 8202

RECURSIVE trim_start(_)
trim_start(s) ==
  IF s # <<>> /\ is_whitespace(Head(s)) THEN trim_start(Tail(s)) ELSE s

RECURSIVE trim_end(_)
trim_end(s) ==
  IF s # <<>> /\ is_whitespace(s[Len(s)]) THEN trim_end(SubSeq(s, 1, Len(s) - 1)) ELSE s

\* mutant of trim: only one white-space character is removed at each end
trim_one(s) ==
  LET t == IF s # <<>> /\ is_whitespace(Head(s)) THEN Tail(s) ELSE s
  IN IF t # <<>> /\ is_whitespace(t[Len(t)]) THEN SubSeq(t, 1, Len(t) - 1) ELSE t

\* str::trim
trim(s) == trim_end(trim_start(s))

\* Grapheme_Cluster_Break = Extend
is_extend(c) == c = COMBINING_VOICED

\* Extended_Pictographic (the emoji of the source's test)
is_extended_pictographic(c) == c \in {MAN, 128105, 128102, 128103}

\* UAX #29: no boundary before s[i] (i > 1) when s[i] is Extend or ZWJ (GB9),
\* or when s[i] is pictographic and follows pictographic Extend* ZWJ (GB11);
\* the other no-break rules need characters outside the alphabet
no_break_before(s, i) ==
  \/ is_extend(s[i])
  \/ s[i] = ZWJ
  \/ /\ is_extended_pictographic(s[i])
     /\ s[i - 1] = ZWJ
     /\ \E j \in 1..(i - 2) :
          /\ is_extended_pictographic(s[j])
          /\ \A k \in (j + 1)..(i - 2) : is_extend(s[k])

\* normalized.graphemes(true).count()
graphemes_count(s) ==
  Cardinality({i \in 1..Len(s) : i = 1 \/ ~no_break_before(s, i)})

\* struct NormalizedString
NormalizedString(value) == [value |-> value]

\* the messages of NormalizedString::new; the Japanese literals of the source
\* are written in Latin letters
msg_required(target) == target \o " wa hissu no parameter desu."
msg_min(target, min) == target \o " wa " \o ToString(min) \o " moji ijou de nyuuryoku shite kudasai."
msg_max(target, max) == target \o " wa " \o ToString(max) \o " moji inai de nyuuryoku shite kudasai."

\* the local normalized of NormalizedString::new
normalized_of(input) == trim(nfkc(input))

\* mutant of new_normalized_string: the lengths are checked before emptiness
new_normalized_string_len_first(input, required, target, min_len, max_len) ==
  LET normalized == normalized_of(input)
      len == graphemes_count(normalized)
  IN IF min_len # None /\ len < min_len.some
       THEN Err(AppError("UnprocessableContent", Some(msg_min(target, min_len.some))))
     ELSE IF max_len # None /\ len > max_len.some
       THEN Err(AppError("UnprocessableContent", Some(msg_max(target, max_len.some))))
     ELSE IF normalized = <<>>
       THEN IF required
              THEN Err(AppError("UnprocessableContent", Some(msg_required(target))))
              ELSE Ok(None)
     ELSE Ok(Some(NormalizedString(normalized)))

\* mutant of new_normalized_string: the upper limit is exclusive
new_normalized_string_max_exclusive(input, required, target, min_len, max_len) ==
  LET normalized == normalized_of(input)
      len == graphemes_count(normalized)
  IN IF normalized = <<>>
       THEN IF required
              THEN Err(AppError("UnprocessableContent", Some(msg_required(target))))
              ELSE Ok(None)
     ELSE IF min_len # None /\ len < min_len.some
       THEN Err(AppError("UnprocessableContent", Some(msg_min(target, min_len.some))))
     ELSE IF max_len # None /\ len >= max_len.some
       THEN Err(AppError("UnprocessableContent", Some(msg_max(target, max_len.some))))
     ELSE Ok(Some(NormalizedString(normalized)))

\* NormalizedString::new
new_normalized_string(input, required, target, min_len, max_len) ==
  LET normalized == normalized_of(input)
      len == graphemes_count(normalized)
  IN IF normalized = <<>>
       THEN IF required
              THEN Err(AppError("UnprocessableContent", Some(msg_required(target))))
              ELSE Ok(None)
     ELSE IF min_len # None /\ len < min_len.some
       THEN Err(AppError("UnprocessableContent", Some(msg_min(target, min_len.some))))
     ELSE IF max_len # None /\ len > max_len.some
       THEN Err(AppError("UnprocessableContent", Some(msg_max(target, max_len.some))))
     ELSE Ok(Some(NormalizedString(normalized)))

\* ------------------------------------------------------------------------
\* Inputs of NormalizedString::new
\* ------------------------------------------------------------------------

\* one code point of each kind the algorithm tells apart: a full-width
\* letter, the two spaces, the voiced sound mark (which decomposes to a space
\* and a combining mark), the combining mark, a letter it composes with, an
\* emoji and the zero-width joiner
Alphabet ==
  { FULLWIDTH_A, SPACE, IDEOGRAPHIC_SPACE, 12443, COMBINING_VOICED, KATAKANA_TE, MAN, ZWJ }

RECURSIVE Texts(_)
Texts(n) ==
  IF n = 0 THEN {<<>>}
  ELSE LET shorter == Texts(n - 1)
       IN shorter \cup {Append(t, c) : t \in {u \in shorter : Len(u) = n - 1}, c \in Alphabet}

\* the inputs of the tests of normalized_string.rs that fit no bound:
\* two ASCII and two full-width spaces; full-width space, full-width ABC,
\* full-width space, abc, full-width space; the family emoji
TestInputs ==
  { <<32, 32, 12288, 12288>>,
    <<12288, 65313, 65314, 65315, 12288, 97, 98, 99, 12288>>,
    <<128104, 8205, 128105, 8205, 128103, 8205, 128102>> }

Inputs == Texts(MaxLen) \cup TestInputs

LenOpts == {None} \cup {Some(n) : n \in 0..MaxBound}

Targets == {"name"}

\* ------------------------------------------------------------------------
\* NormalizedString: state machine
\* ------------------------------------------------------------------------

\* the local len of NormalizedString::new: counted only when the normalized
\* text is not empty
len_of(normalized) ==
  IF normalized = <<>> THEN None ELSE Some(graphemes_count(normalized))

\* a caller passes raw text to NormalizedString::new
New ==
  /\ call.op = "idle"
  /\ \E input \in Inputs, required \in BOOLEAN, target \in Targets,
        min_len \in LenOpts, max_len \in LenOpts :
       call' = [op |-> "NormalizedString::new", input |-> input, required |-> required,
                target |-> target, min_len |-> min_len, max_len |-> max_len,
                normalized |-> normalized_of(input),
                len |-> len_of(normalized_of(input)),
                again |-> FALSE,
                ret |-> new_normalized_string(input, required, target, min_len, max_len)]
  /\ UNCHANGED <<log, today, bd>>

\* the text a call of NormalizedString::new produced (the wrapped string, or
\* the normalized text when it returned None or an error) is passed to
\* NormalizedString::new again with the same parameters
NewAgain ==
  /\ call.op = "NormalizedString::new"
  /\ ~call.again
  /\ LET input == call.normalized
     IN call' = [op |-> "NormalizedString::new", input |-> input,
                 required |-> call.required, target |-> call.target,
                 min_len |-> call.min_len, max_len |-> call.max_len,
                 normalized |-> normalized_of(input),
                 len |-> len_of(normalized_of(input)),
                 again |-> TRUE, orig |-> call.input, first |-> call.ret,
                 ret |-> new_normalized_string(input, call.required, call.target,
                                               call.min_len, call.max_len)]
  /\ UNCHANGED <<log, today, bd>>

NextNS == New \/ NewAgain \/ Return

SpecNS == Init /\ [][NextNS]_vars

\* ------------------------------------------------------------------------
\* Properties of NormalizedString::new (specification SpecNS)
\* ------------------------------------------------------------------------

IsNew == call.op = "NormalizedString::new"

\* the two length errors, as the design words them
TooShort(r, target, min) ==
  r = Err(AppError("UnprocessableContent", Some(msg_min(target, min))))

TooLong(r, target, max) ==
  r = Err(AppError("UnprocessableContent", Some(msg_max(target, max))))

\* C4: emptiness is decided before any length check: an input that is empty
\* after normalization and trimming (one made of ASCII and full-width spaces
\* included) gives Ok(None) when not required and the UnprocessableContent
\* "required" error when required, whatever min_len and max_len are.
C4_EmptinessBeforeLength ==
  IsNew =>
    /\ (\A i \in 1..Len(call.input) : call.input[i] \in {SPACE, IDEOGRAPHIC_SPACE})
         => call.normalized = <<>>
    /\ call.normalized = <<>> =>
         IF call.required
           THEN call.ret = Err(AppError("UnprocessableContent",
                                        Some(msg_required(call.target))))
           ELSE call.ret = Ok(None)

\* C4 witness: two ASCII and two full-width spaces, optional, min_len 2: absent
C4_Witness ==
  /\ IsNew
  /\ call.input = <<32, 32, 12288, 12288>>
  /\ ~call.required
  /\ call.min_len = Some(2)
  /\ call.ret = Ok(None)

\* C5 as claimed: for a non-empty normalized input of n grapheme clusters the
\* call succeeds exactly when n is inside the inclusive limits that are set,
\* n < min_len yields the "at least" error, n > max_len yields the "at most"
\* error, and a zero-width-joiner emoji sequence counts as 1.
C5_Claimed ==
  (IsNew /\ call.normalized # <<>>) =>
    LET n == call.len.some
        min == call.min_len
        max == call.max_len
    IN /\ IsSome(call.ret) <=> ((min = None \/ n >= min.some) /\ (max = None \/ n <= max.some))
       /\ (min # None /\ n < min.some) => TooShort(call.ret, call.target, min.some)
       /\ (max # None /\ n > max.some) => TooLong(call.ret, call.target, max.some)
       /\ call.normalized \in {<<MAN, ZWJ, MAN>>,
                               <<128104, 8205, 128105, 8205, 128103, 8205, 128102>>}
            => n = 1

\* C5 as amended: the minimum is checked first, so n > max_len yields the "at
\* most" error only when n is not also below min_len (which can happen when
\* min_len > max_len); the rest as claimed.
C5_LengthLimits ==
  (IsNew /\ call.normalized # <<>>) =>
    LET n == call.len.some
        min == call.min_len
        max == call.max_len
    IN /\ IsSome(call.ret) <=> ((min = None \/ n >= min.some) /\ (max = None \/ n <= max.some))
       /\ (min # None /\ n < min.some) => TooShort(call.ret, call.target, min.some)
       /\ (max # None /\ n > max.some /\ ~(min # None /\ n < min.some))
            => TooLong(call.ret, call.target, max.some)
       /\ call.normalized \in {<<MAN, ZWJ, MAN>>,
                               <<128104, 8205, 128105, 8205, 128103, 8205, 128102>>}
            => n = 1

\* C5 witness: the seven-code-point family emoji with min_len = max_len = 1
\* is accepted as one grapheme cluster
C5_Witness ==
  /\ IsNew
  /\ call.input = <<128104, 8205, 128105, 8205, 128103, 8205, 128102>>
  /\ call.min_len = Some(1)
  /\ call.max_len = Some(1)
  /\ call.len = Some(1)
  /\ IsSome(call.ret)

\* a code point that NFKC replaces on its own: a full-width form, the
\* full-width space, the voiced sound mark
HasCompatibilityForm(c) == (c >= 65281 /\ c <= 65374) \/ c = 12288 \/ c = 12443

\* C6: the string every returned NormalizedString wraps is NFKC-normalized
\* (no full-width variant left, no decomposed pair left), has no white space
\* at either end, is not empty and has a grapheme count inside the inclusive
\* limits requested.
C6_ValueInvariant ==
  (IsNew /\ IsSome(call.ret)) =>
    LET v == call.ret.ok.some.value
        n == graphemes_count(v)
    IN /\ v # <<>>
       /\ \A i \in 1..Len(v) : ~HasCompatibilityForm(v[i])
       /\ \A i \in 1..(Len(v) - 1) : ~(v[i] = KATAKANA_TE /\ v[i + 1] = COMBINING_VOICED)
       /\ nfkc(v) = v
       /\ ~is_whitespace(v[1])
       /\ ~is_whitespace(v[Len(v)])
       /\ call.min_len # None => n >= call.min_len.some
       /\ call.max_len # None => n <= call.max_len.some

\* C6 witness: full-width space, full-width A, full-width space gives "A"
C6_Witness ==
  /\ IsNew
  /\ call.input = <<IDEOGRAPHIC_SPACE, FULLWIDTH_A, IDEOGRAPHIC_SPACE>>
  /\ call.ret = Ok(Some(NormalizedString(<<65>>)))

\* C7: normalization is idempotent: passing the text a call produced to
\* NormalizedString::new again with the same parameters gives the same
\* outcome (the same value, None again, or the same error).
C7_Idempotent ==
  (IsNew /\ call.again) => call.ret = call.first

\* C7 witness: a second call on the value of a first call that had changed
\* its input returned that value again
C7_Witness ==
  /\ IsNew
  /\ call.again
  /\ call.orig # call.input
  /\ IsSome(call.ret)
  /\ call.ret.ok.some.value = call.input

\* C8 as claimed: full-width spaces are removed wherever they occur, between
\* non-white-space segments as well as at the two ends: full-width space,
\* full-width ABC, full-width space, abc, full-width space normalizes to
\* "ABCabc", with no white space left between "ABC" and "abc".
C8_Claimed ==
  (IsNew /\ call.input = <<12288, 65313, 65314, 65315, 12288, 97, 98, 99, 12288>>) =>
    /\ IsSome(call.ret)
    /\ call.ret.ok.some.value = <<65, 66, 67, 97, 98, 99>>
    /\ \A i \in 1..Len(call.ret.ok.some.value) : ~is_whitespace(call.ret.ok.some.value[i])

\* ------------------------------------------------------------------------
\* birth_date.rs : calendar dates <<year, month, day>>
\* ------------------------------------------------------------------------

\* Bound: the calendar of the model covers the years 2023..2023 + MaxYears,
\* a leap year between two years without a leap day
MaxYears == 2

\* BirthDate::LEN
LEN == 8

\* BirthDate::TARGET (the Japanese word for birthday in Latin letters)
TARGET == "tanjoubi(birth_date)"

is_leap_year(y) == y % 4 = 0 /\ (y % 100 # 0 \/ y % 400 = 0)

days_in_month(y, m) ==
  CASE m \in {1, 3, 5, 7, 8, 10, 12} -> 31
    [] m \in {4, 6, 9, 11} -> 30
    [] m = 2 -> IF is_leap_year(y) THEN 29 ELSE 28
    [] OTHER -> 0

\* NaiveDate::from_ymd_opt (the years of the model are far inside chrono's range)
from_ymd_opt(y, m, d) ==
  IF m >= 1 /\ m <= 12 /\ d >= 1 /\ d <= days_in_month(y, m)
    THEN Some(<<y, m, d>>)
    ELSE None

\* Ord of NaiveDate: a < b
date_lt(a, b) ==
  \/ a[1] < b[1]
  \/ a[1] = b[1] /\ a[2] < b[2]
  \/ a[1] = b[1] /\ a[2] = b[2] /\ a[3] < b[3]

\* chrono scan::number : the value of the longest prefix of at most max ASCII
\* digits of s and the rest of s; None when s does not start with a digit
is_digit(c) == c >= 48 /\ c <= 57

RECURSIVE digits_prefix(_, _)
digits_prefix(s, max) ==
  IF max > 0 /\ s # <<>> /\ is_digit(Head(s))
    THEN 1 + digits_prefix(Tail(s), max - 1)
    ELSE 0

RECURSIVE number_value(_)
number_value(ds) ==
  IF ds = <<>> THEN 0 ELSE 10 * number_value(SubSeq(ds, 1, Len(ds) - 1)) + (ds[Len(ds)] - 48)

number(s, max) ==
  LET n == digits_prefix(s, max)
  IN IF n = 0 THEN None
     ELSE Some([value |-> number_value(SubSeq(s, 1, n)), rest |-> SubSeq(s, n + 1, Len(s))])

\* NaiveDate::parse_from_str(s, "%Y%m%d") : each numeric item skips leading
\* white space, then takes up to 4, 2 and 2 digits (no sign character is in
\* the inputs of the model); text left over, a missing item or a date that
\* does not exist is an error
parse_from_str(s) ==
  LET y == number(trim_start(s), 4)
  IN IF y = None THEN None
     ELSE LET m == number(trim_start(y.some.rest), 2)
          IN IF m = None THEN None
             ELSE LET d == number(trim_start(m.some.rest), 2)
                  IN IF d = None \/ d.some.rest # <<>> THEN None
                     ELSE from_ymd_opt(y.some.value, m.some.value, d.some.value)

\* struct BirthDate(NaiveDate)
BirthDate(naive_date) == [naive_date |-> naive_date]

msg_format == TARGET \o " wa YYYYmmdd keishiki de nyuuryoku shite kudasai."
msg_future == TARGET \o " wa miraibi wo shitei dekimasen."
msg_invalid == TARGET \o " no atai ga fusei desu."

\* mutant of new_birth_date: the future-date guard is missing
new_birth_date_no_future_check(input, required, now_date) ==
  LET birth_date_ns == new_normalized_string(input, required, TARGET, Some(LEN), Some(LEN))
  IN IF IsErr(birth_date_ns) THEN birth_date_ns
     ELSE IF birth_date_ns.ok = None THEN Ok(None)
     ELSE LET birth_date == parse_from_str(birth_date_ns.ok.some.value)
          IN IF birth_date = None
               THEN Err(AppError("UnprocessableContent", Some(msg_format)))
             ELSE Ok(Some(BirthDate(birth_date.some)))

\* mutant of new_birth_date: today itself is rejected as a future date
new_birth_date_today_rejected(input, required, now_date) ==
  LET birth_date_ns == new_normalized_string(input, required, TARGET, Some(LEN), Some(LEN))
  IN IF IsErr(birth_date_ns) THEN birth_date_ns
     ELSE IF birth_date_ns.ok = None THEN Ok(None)
     ELSE LET birth_date == parse_from_str(birth_date_ns.ok.some.value)
          IN IF birth_date = None
               THEN Err(AppError("UnprocessableContent", Some(msg_format)))
             ELSE IF ~date_lt(birth_date.some, now_date)
               THEN Err(AppError("UnprocessableContent", Some(msg_future)))
             ELSE Ok(Some(BirthDate(birth_date.some)))

\* mutant of new_birth_date: an optional input that does not parse is dropped
\* silently instead of being rejected
new_birth_date_invalid_is_none(input, required, now_date) ==
  LET birth_date_ns == new_normalized_string(input, required, TARGET, Some(LEN), Some(LEN))
  IN IF IsErr(birth_date_ns) THEN birth_date_ns
     ELSE IF birth_date_ns.ok = None THEN Ok(None)
     ELSE LET birth_date == parse_from_str(birth_date_ns.ok.some.value)
          IN IF birth_date = None
               THEN IF required
                      THEN Err(AppError("UnprocessableContent", Some(msg_format)))
                      ELSE Ok(None)
             ELSE IF date_lt(now_date, birth_date.some)
               THEN Err(AppError("UnprocessableContent", Some(msg_future)))
             ELSE Ok(Some(BirthDate(birth_date.some)))

\* BirthDate::new ; now_date is the one reading of Self::today()
new_birth_date(input, required, now_date) ==
  LET birth_date_ns == new_normalized_string(input, required, TARGET, Some(LEN), Some(LEN))
  IN IF IsErr(birth_date_ns) THEN birth_date_ns
     ELSE IF birth_date_ns.ok = None THEN Ok(None)
     ELSE LET birth_date == parse_from_str(birth_date_ns.ok.some.value)
          IN IF birth_date = None
               THEN Err(AppError("UnprocessableContent", Some(msg_format)))
             ELSE IF date_lt(now_date, birth_date.some)
               THEN Err(AppError("UnprocessableContent", Some(msg_future)))
             ELSE Ok(Some(BirthDate(birth_date.some)))

\* BirthDate::from_naive_date
from_naive_date(d) == BirthDate(d)

\* BirthDate::as_naive_date
as_naive_date(self) == self.naive_date

\* mutant of calculate_to_age: in a year without a leap day the anniversary
\* of a 29 February birthday is taken to be 1 March
calculate_to_age_march_first(self, now_date) ==
  LET birthday == as_naive_date(self)
      age == now_date[1] - birthday[1]
      opt == from_ymd_opt(now_date[1], birthday[2], birthday[3])
  IN IF opt = None /\ ~(birthday[2] = 2 /\ birthday[3] = 29)
       THEN Err(AppError("UnprocessableContent", Some(msg_invalid)))
     ELSE LET birthday_this_year == IF opt = None THEN <<now_date[1], 3, 1>> ELSE opt.some
              age2 == IF date_lt(now_date, birthday_this_year) THEN age - 1 ELSE age
          IN IF age2 < 0
               THEN Err(AppError("UnprocessableContent", Some(msg_invalid)))
               ELSE Ok(age2)

\* mutant of calculate_to_age: the guard on a negative age is missing, so
\* the cast to u32 is applied to whatever the subtraction gave
calculate_to_age_unguarded_cast(self, now_date) ==
  LET birthday == as_naive_date(self)
      age == now_date[1] - birthday[1]
      opt == from_ymd_opt(now_date[1], birthday[2], birthday[3])
  IN IF opt = None /\ ~(birthday[2] = 2 /\ birthday[3] = 29)
       THEN Err(AppError("UnprocessableContent", Some(msg_invalid)))
     ELSE LET birthday_this_year == IF opt = None THEN <<now_date[1], 2, 28>> ELSE opt.some
              age2 == IF date_lt(now_date, birthday_this_year) THEN age - 1 ELSE age
          IN Ok(age2)

\* BirthDate::calculate_to_age ; now_date is the one reading of Self::today()
calculate_to_age(self, now_date) ==
  LET birthday == as_naive_date(self)
      age == now_date[1] - birthday[1]
      opt == from_ymd_opt(now_date[1], birthday[2], birthday[3])
  IN IF opt = None /\ ~(birthday[2] = 2 /\ birthday[3] = 29)
       THEN Err(AppError("UnprocessableContent", Some(msg_invalid)))
     ELSE LET birthday_this_year == IF opt = None THEN <<now_date[1], 2, 28>> ELSE opt.some
              age2 == IF date_lt(now_date, birthday_this_year) THEN age - 1 ELSE age
          IN IF age2 < 0
               THEN Err(AppError("UnprocessableContent", Some(msg_invalid)))
               ELSE Ok(age2)

\* ------------------------------------------------------------------------
\* Inputs of BirthDate
\* ------------------------------------------------------------------------

Years == 2023..(2023 + MaxYears)

\* months and days the inputs are drawn from: the ends of the months around
\* the leap day and the turn of the year, and one month and one day that do
\* not exist
MonthsDrawn == {1, 2, 3, 12, 13}
DaysDrawn == {1, 27, 28, 29, 30, 31, 32}

\* the dates that exist among them
Dates ==
  {t \in Years \X MonthsDrawn \X DaysDrawn : from_ymd_opt(t[1], t[2], t[3]) # None}

\* a number as n ASCII digits, or as n full-width digits
RECURSIVE digits(_, _, _)
digits(v, n, zero) ==
  IF n = 0 THEN <<>> ELSE Append(digits(v \div 10, n - 1, zero), zero + (v % 10))

\* the text YYYYMMDD of a year, a month and a day
Fmt(t) == digits(t[1], 4, 48) \o digits(t[2], 2, 48) \o digits(t[3], 2, 48)

\* the same in full-width digits between full-width spaces
FmtWide(t) ==
  <<IDEOGRAPHIC_SPACE>> \o digits(t[1], 4, 65296) \o digits(t[2], 2, 65296)
    \o digits(t[3], 2, 65296) \o <<IDEOGRAPHIC_SPACE>>

BirthDateInputs ==
  {Fmt(t) : t \in Years \X MonthsDrawn \X DaysDrawn}
    \cup {FmtWide(t) : t \in Years \X MonthsDrawn \X DaysDrawn}
    \cup {SubSeq(Fmt(t), 1, 7) : t \in Dates}
    \cup {<<>>, <<SPACE, IDEOGRAPHIC_SPACE>>,
          <<50, 48, 50, 52, 48, 49, 48, 97>>,
          <<50, 48, 50, 52, 32, 49, 32, 49>>,
          <<50, 48, 50, 52, 48, 49, 48, 49, 48>>}

\* ------------------------------------------------------------------------
\* BirthDate: state machine.  bd is the BirthDate value a caller holds, with
\* the constructor that built it.
\* ------------------------------------------------------------------------

InitBD ==
  /\ call = [op |-> "idle"]
  /\ log = <<>>
  /\ today \in Dates
  /\ bd = None

held(value, by) == Some([value |-> value, by |-> by])

\* a caller passes raw text to BirthDate::new
BirthDateNew ==
  /\ call.op = "idle"
  /\ bd = None
  /\ \E input \in BirthDateInputs, required \in BOOLEAN :
       LET ret == new_birth_date(input, required, today)
       IN /\ call' = [op |-> "BirthDate::new", input |-> input, required |-> required,
                      normalized |-> normalized_of(input), today |-> today, ret |-> ret]
          /\ bd' = IF IsSome(ret) THEN held(ret.ok.some, "new") ELSE None
  /\ UNCHANGED <<log, today>>

\* a caller rebuilds a BirthDate from a calendar date
FromNaiveDate ==
  /\ call.op = "idle"
  /\ bd = None
  /\ \E d \in Dates :
       /\ call' = [op |-> "BirthDate::from_naive_date", bd |-> d, today |-> today,
                   ret |-> from_naive_date(d)]
       /\ bd' = held(from_naive_date(d), "from_naive_date")
  /\ UNCHANGED <<log, today>>

\* the holder of a BirthDate asks for the age
CalculateToAge ==
  /\ call.op = "idle"
  /\ bd # None
  /\ call' = [op |-> "BirthDate::calculate_to_age", self |-> bd.some.value,
              by |-> bd.some.by, today |-> today,
              ret |-> calculate_to_age(bd.some.value, today)]
  /\ UNCHANGED <<log, today, bd>>

\* the holder of the BirthDate drops it
Drop ==
  /\ call.op = "idle"
  /\ bd # None
  /\ bd' = None
  /\ UNCHANGED <<call, log, today>>

\* the local calendar date moves on between two calls, to the next of the
\* dates of the model
Tick ==
  /\ call.op = "idle"
  /\ LET later == {d \in Dates : date_lt(today, d)}
     IN /\ later # {}
        /\ today' = CHOOSE d \in later : \A e \in later : ~date_lt(e, d)
  /\ UNCHANGED <<call, log, bd>>

NextBD == BirthDateNew \/ FromNaiveDate \/ CalculateToAge \/ Drop \/ Tick \/ Return

SpecBD == InitBD /\ [][NextBD]_vars

\* ------------------------------------------------------------------------
\* Properties of BirthDate (specification SpecBD)
\* ------------------------------------------------------------------------

IsBirthDateNew == call.op = "BirthDate::new"

IsFromNaiveDate == call.op = "BirthDate::from_naive_date"

\* C9 as claimed: whichever constructor produced it, a BirthDate wraps a date
\* that is not later than the today of the moment it was constructed.
C9_Claimed ==
  /\ (IsBirthDateNew /\ IsSome(call.ret)) =>
       ~date_lt(call.today, call.ret.ok.some.naive_date)
  /\ IsFromNaiveDate => ~date_lt(call.today, call.ret.naive_date)

\* C9 as amended: a BirthDate produced by BirthDate::new wraps a date that is
\* not later than the today read at its construction; from_naive_date wraps
\* the calendar date it is given, unchecked, so that date may be later than
\* today.
C9_NotFutureWhenBuiltByNew ==
  /\ (IsBirthDateNew /\ IsSome(call.ret)) =>
       /\ ~date_lt(call.today, call.ret.ok.some.naive_date)
       /\ bd = Some([value |-> call.ret.ok.some, by |-> "new"])
  /\ IsFromNaiveDate =>
       /\ call.ret.naive_date = call.bd
       /\ bd = Some([value |-> call.ret, by |-> "from_naive_date"])

\* C9 witness: BirthDate::new accepted the date of today itself, on the last
\* day of a year
C9_Witness ==
  /\ IsBirthDateNew
  /\ IsSome(call.ret)
  /\ call.ret.ok.some.naive_date = call.today
  /\ call.today[2] = 12
  /\ call.today[3] = 31
  /\ bd # None

\* C10: for an input that normalizes to the eight digits of a date d that
\* exists, BirthDate::new fails with the "future date" UnprocessableContent
\* error exactly when d is later than today, and otherwise returns
\* Some(BirthDate(d)): tomorrow is rejected, today and every earlier date
\* are accepted.
C10_FutureDateRejected ==
  IsBirthDateNew =>
    \A d \in Dates :
      call.normalized = Fmt(d) =>
        IF date_lt(call.today, d)
          THEN call.ret = Err(AppError("UnprocessableContent", Some(msg_future)))
          ELSE call.ret = Ok(Some(BirthDate(d)))

\* C10 witness: today is the last day of February and the input, in
\* full-width digits between full-width spaces, is the first of March of the
\* same year: tomorrow is rejected as a future date
C10_Witness ==
  /\ IsBirthDateNew
  /\ call.today[2] = 2
  /\ call.today[3] = days_in_month(call.today[1], 2)
  /\ call.input = FmtWide(<<call.today[1], 3, 1>>)
  /\ call.ret = Err(AppError("UnprocessableContent", Some(msg_future)))

IsCalculateToAge == call.op = "BirthDate::calculate_to_age"

\* C11: BirthDate::new returns Ok(None) exactly when required is false and
\* the input is empty after normalization and trimming. An input that is not
\* empty then is never answered with None: it is an error when its length is
\* not eight, when it does not parse as YYYYMMDD and when its date is later
\* than today, also when required is false, and otherwise it is Some of the
\* date it parses to. An error of the underlying text normalization is
\* returned unchanged.
C11_NoneOnlyWhenOptionalAndEmpty ==
  IsBirthDateNew =>
    LET ns == new_normalized_string(call.input, call.required, TARGET, Some(LEN), Some(LEN))
        parsed == parse_from_str(call.normalized)
    IN /\ (call.ret = Ok(None)) <=> (~call.required /\ call.normalized = <<>>)
       /\ IsErr(ns) => call.ret = ns
       /\ (call.normalized = <<>> /\ call.required) =>
            call.ret = Err(AppError("UnprocessableContent", Some(msg_required(TARGET))))
       /\ (call.normalized # <<>> /\ graphemes_count(call.normalized) # LEN) =>
            /\ IsErr(call.ret)
            /\ call.ret.err.kind = "UnprocessableContent"
            /\ call.ret.err.detail \in {Some(msg_min(TARGET, LEN)), Some(msg_max(TARGET, LEN))}
       /\ (graphemes_count(call.normalized) = LEN /\ parsed = None) =>
            call.ret = Err(AppError("UnprocessableContent", Some(msg_format)))
       /\ (graphemes_count(call.normalized) = LEN /\ parsed # None) =>
            IF date_lt(call.today, parsed.some)
              THEN call.ret = Err(AppError("UnprocessableContent", Some(msg_future)))
              ELSE call.ret = Ok(Some(BirthDate(parsed.some)))

\* C11 witness: an optional input of eight characters that are not a date
\* is rejected with the format error, not dropped
C11_Witness ==
  /\ IsBirthDateNew
  /\ ~call.required
  /\ graphemes_count(call.normalized) = LEN
  /\ parse_from_str(call.normalized) = None
  /\ call.ret = Err(AppError("UnprocessableContent", Some(msg_format)))

\* this year's anniversary of a birthday: the same month and day, and
\* 28 February for a 29 February birthday in a year without a leap day
Anniversary(birthday, year) ==
  IF birthday[2] = 2 /\ birthday[3] = 29 /\ ~is_leap_year(year)
    THEN <<year, 2, 28>>
    ELSE <<year, birthday[2], birthday[3]>>

\* C12: the age is today.year - birth.year, minus one exactly when today is
\* earlier than this year's anniversary of the birthday. For a birthday on
\* 29 February and a today in a year without a leap day the anniversary is
\* 28 February: the age on 28 February and on 1 March of that year is
\* today.year - birth.year, and on 27 February it is one less.
C12_LeapDayPolicy ==
  IsCalculateToAge =>
    LET birthday == call.self.naive_date
        years == call.today[1] - birthday[1]
        expected == IF date_lt(call.today, Anniversary(birthday, call.today[1]))
                      THEN years - 1 ELSE years
    IN /\ expected >= 0 => call.ret = Ok(expected)
       /\ ~IsErr(call.ret) => call.ret.ok = expected
       /\ (birthday[2] = 2 /\ birthday[3] = 29 /\ ~is_leap_year(call.today[1])
             /\ years >= 1) =>
            /\ call.today = <<call.today[1], 2, 27>> => call.ret = Ok(years - 1)
            /\ call.today = <<call.today[1], 2, 28>> => call.ret = Ok(years)
            /\ call.today = <<call.today[1], 3, 1>> => call.ret = Ok(years)

\* C12 witness: born on 29 February, asked on 28 February of the next
\* year, which has no leap day: the age is one
C12_Witness ==
  /\ IsCalculateToAge
  /\ call.self.naive_date[2] = 2
  /\ call.self.naive_date[3] = 29
  /\ call.today = <<call.self.naive_date[1] + 1, 2, 28>>
  /\ call.ret = Ok(1)

\* C16: calculate_to_age fails exactly when the wrapped birth date is later
\* than the today it reads, and then with the "value is invalid"
\* UnprocessableContent error; otherwise it returns an age that is not
\* negative. For a BirthDate built by a successful BirthDate::new, read on
\* the day of its construction or later, it is always Ok; for one built by
\* from_naive_date with a date later than today it is always the error,
\* never an age obtained by casting a negative number.
C16_FailsExactlyWhenBornLater ==
  IsCalculateToAge =>
    LET birthday == call.self.naive_date
        invalid == Err(AppError("UnprocessableContent", Some(msg_invalid)))
    IN /\ IsErr(call.ret) <=> date_lt(call.today, birthday)
       /\ IsErr(call.ret) => call.ret = invalid
       /\ ~IsErr(call.ret) => call.ret.ok \in Nat
       /\ call.by = "new" => (~IsErr(call.ret) /\ ~date_lt(call.today, birthday))
       /\ (call.by = "from_naive_date" /\ date_lt(call.today, birthday)) =>
            call.ret = invalid

\* C16 witness: a BirthDate built by from_naive_date wraps 29 February of
\* next year and calculate_to_age is asked on 1 March, where the
\* anniversary of this year has passed: the age before the guard is -1 and
\* the result is the error
C16_Witness ==
  /\ IsCalculateToAge
  /\ call.by = "from_naive_date"
  /\ call.self.naive_date = <<call.today[1] + 1, 2, 29>>
  /\ call.today[2] = 3
  /\ call.today[3] = 1
  /\ call.ret = Err(AppError("UnprocessableContent", Some(msg_invalid)))

\* a BirthDate built by BirthDate::new is asked for its age on a later day
C16_WitnessBuiltByNew ==
  /\ IsCalculateToAge
  /\ call.by = "new"
  /\ date_lt(call.self.naive_date, call.today)
  /\ call.ret = Ok(0)

====
